---------------------------- MODULE Spec2Model ----------------------------
(***************************************************************************)
(* A model of the FinanceBot conversational core:                          *)
(*   src/src/finance_agent.py   FinanceBot (period parsing, period query,  *)
(*                              registration, analysis, chat dispatch)     *)
(*   src/src/memory_manager.py  FinanceBotMemory (cached user profile)     *)
(*   src/src/analyzer.py        DataAnalyzer (statistics, category sums)   *)
(*   src/src/data_collector.py  DataCollector (the ledger table)           *)
(*   src/src/dashboard.py       the form that writes to the same table     *)
(*                                                                         *)
(* Spec is the running bot: construction, chat() calls, the passing of     *)
(* time and the form of the dashboard.  SpecParse, SpecQuery and SpecStats *)
(* each apply one function once to inputs drawn from bounded sets.         *)
(*                                                                         *)
(* Text is modelled as a sequence of one-character strings, so that        *)
(* Python's substring test, lower(), strip() and the regular expression    *)
(* of _parse_date_query are computed character by character.  Instants     *)
(* are whole hours since 2024-01-01 00:00 UTC; calendar dates are day      *)
(* numbers since 2024-01-01.  Amounts are whole centavos (50.00 is 5000).  *)
(***************************************************************************)
EXTENDS Integers, Sequences, FiniteSets, TLC

VARIABLES
    \* ---- the parse specification (SpecParse)
    p_phrases,      \* the phrases of the utterance handed to _parse_date_query
    p_now,          \* the instant _get_current_time() returns
    p_result,       \* the descriptor returned, or NotCalled
    \* ---- the query specification (SpecQuery)
    q_table,        \* the rows of the table gastos
    q_period,       \* the period_info handed to _query_expenses_by_period
    q_env,          \* the environment of the call: clock, store outcome, library
    q_result,       \* the rows returned, or NotCalled
    \* ---- the statistics specification (SpecStats)
    s_df,           \* the DataFrame handed to DataAnalyzer
    s_out,          \* what the analyzer computed from it, or NotCalled
    \* ---- the running bot (Spec)
    b_clock,          \* the instant, in hours
    b_sys_offset,     \* the offset of the zone of the host, used by date.today()
    b_ledger,         \* the rows of the table gastos, in insertion order
    b_memory,         \* FinanceBotMemory: user_profile, insights_cache, last_update
    b_chat_history,   \* FinanceBot.chat_history
    b_calls,          \* the number of chat() calls made
    b_last_call,      \* the last chat() call: instant, input, route, reply
    \* ---- the memory alone (SpecMemory)
    m_clock,        \* the instant, in hours
    m_table,        \* the rows of the table gastos
    m_memory,       \* FinanceBotMemory: user_profile, insights_cache, last_update
    m_calls,        \* the number of update_memory() calls made
    m_last,         \* the last update_memory() call and the one before it
    \* ---- the registration branch alone (SpecRegister)
    r_in,           \* the classifier's answer, the ledger and the store's outcome
    r_out,          \* what the branch returned and left, or NotCalled
    \* ---- the connection to the store (SpecConnect)
    c_plan,         \* whether the database answers, attempt by attempt
    c_attempt,      \* the loop variable of _connect_with_retry
    c_pc,           \* where the loop is: try, sleep, returned, raised
    c_log,          \* what the loop has done: attempts and pauses, in order
    \* ---- one FinanceBotMemory used by several threads (SpecShared)
    t_clock,        \* the instant, in hours
    t_table,        \* the rows of the table gastos
    t_memory,       \* the fields of the memory: user_profile, insights_cache, last_update
    t_pc,           \* where each thread is inside update_memory()
    t_df,           \* the frame each thread has read
    t_versions,     \* the memories that complete refreshes have produced
    t_seen,         \* what a reader has last read, or NotCalled
    \* ---- the chat interface of one session (SpecInterface)
    u_chat_messages,      \* st.session_state.chat_messages, the transcript
    u_chat_history,       \* chat_history of st.session_state.finance_bot
    u_processing_message, \* st.session_state.processing_message
    u_sends,              \* the number of messages sent
    u_event               \* what the last run of the script did

botVars == <<b_clock, b_sys_offset, b_ledger, b_memory, b_chat_history, b_calls, b_last_call>>
parseVars == <<p_phrases, p_now, p_result>>
queryVars == <<q_table, q_period, q_env, q_result>>
statsVars == <<s_df, s_out>>
memVars == <<m_clock, m_table, m_memory, m_calls, m_last>>
regVars == <<r_in, r_out>>
connVars == <<c_plan, c_attempt, c_pc, c_log>>
sharedVars == <<t_clock, t_table, t_memory, t_pc, t_df, t_versions, t_seen>>
uiVars == <<u_chat_messages, u_chat_history, u_processing_message, u_sends, u_event>>
vars == <<botVars, parseVars, queryVars, statsVars, memVars, regVars, connVars, sharedVars, uiVars>>

\* what each specification leaves alone
exceptBot == <<parseVars, queryVars, statsVars, memVars, regVars, connVars, sharedVars, uiVars>>
exceptParse == <<botVars, queryVars, statsVars, memVars, regVars, connVars, sharedVars, uiVars>>
exceptQuery == <<botVars, parseVars, statsVars, memVars, regVars, connVars, sharedVars, uiVars>>
exceptStats == <<botVars, parseVars, queryVars, memVars, regVars, connVars, sharedVars, uiVars>>
exceptMem == <<botVars, parseVars, queryVars, statsVars, regVars, connVars, sharedVars, uiVars>>
exceptReg == <<botVars, parseVars, queryVars, statsVars, memVars, connVars, sharedVars, uiVars>>
exceptConn == <<botVars, parseVars, queryVars, statsVars, memVars, regVars, sharedVars, uiVars>>
exceptShared == <<botVars, parseVars, queryVars, statsVars, memVars, regVars, connVars, uiVars>>
exceptUi == <<botVars, parseVars, queryVars, statsVars, memVars, regVars, connVars, sharedVars>>

\* A call's result is NotCalled before the call and Returned(value) after it.
NotCalled == <<>>
Returned(value) == <<value>>

(***************************************************************************)
(* Bounds of the model.                                                    *)
(***************************************************************************)
\* Instants range over ClockStart..MaxClock: 2024-01-31 22:00 UTC up to
\* 2024-02-01 04:00 UTC, which holds midnight in UTC and in America/Sao_Paulo.
ClockStart == 742
MaxClock == 748
\* An utterance is at most MaxPhrases phrases, joined by single spaces.
MaxPhrases == 2
\* The table gastos holds at most MaxRows rows.
MaxRows == 2
\* A DataFrame handed to the analyzer alone holds at most MaxFrame rows.
MaxFrame == 3
\* collect_sample_data() makes 50 rows; the model keeps SampleRows of them.
SampleRows == 1
\* The table holds at most MaxInitialRows rows when the bot is constructed.
MaxInitialRows == 1
\* The form of the dashboard writes while the table holds fewer than MaxLedger rows.
MaxLedger == 1
\* chat() is called at most MaxCalls times.
MaxCalls == 1
\* update_memory() is called at most MaxMemCalls times.
MaxMemCalls == 2
MaxLongCalls == 6
MaxSends == 3
\* The bot is constructed at BotStart and runs until BotEnd.
BotStart == 743
BotEnd == 745

Clocks == ClockStart..MaxClock

(***************************************************************************)
(* Sets and sequences.                                                     *)
(***************************************************************************)
Min(S) == CHOOSE x \in S : \A y \in S : x <= y

Range(seq) == {seq[i] : i \in 1..Len(seq)}

RECURSIVE SumSeq(_)
SumSeq(seq) == IF seq = <<>> THEN 0 ELSE Head(seq) + SumSeq(Tail(seq))

(***************************************************************************)
(* Text: str methods of Python.                                            *)
(***************************************************************************)
Upper == <<"A","B","C","D","E","F","G","H","I","J","K","L","M","N","O","P","Q","R","S","T","U","V","W","X","Y","Z","Á","Â","Ã","É","Ê","Í","Ó","Ô","Õ","Ú","Ç">>
Lower == <<"a","b","c","d","e","f","g","h","i","j","k","l","m","n","o","p","q","r","s","t","u","v","w","x","y","z","á","â","ã","é","ê","í","ó","ô","õ","ú","ç">>

Digits == <<"0","1","2","3","4","5","6","7","8","9">>

IsDigit(c) == \E i \in 1..10 : Digits[i] = c

DigitVal(c) == (CHOOSE i \in 1..10 : Digits[i] = c) - 1

\* str.lower() on one character
LowerChar(c) ==
    IF \E i \in 1..Len(Upper) : Upper[i] = c
    THEN Lower[CHOOSE i \in 1..Len(Upper) : Upper[i] = c]
    ELSE c

\* str.upper() on one character
UpperChar(c) ==
    IF \E i \in 1..Len(Lower) : Lower[i] = c
    THEN Upper[CHOOSE i \in 1..Len(Lower) : Lower[i] = c]
    ELSE c

\* str.lower()
StrLower(s) == [i \in 1..Len(s) |-> LowerChar(s[i])]

\* str.capitalize(): the first character upper-cased, the rest lower-cased
Capitalize(s) == [i \in 1..Len(s) |-> IF i = 1 THEN UpperChar(s[i]) ELSE LowerChar(s[i])]

\* str.strip(): leading and trailing white space removed
Strip(s) ==
    LET inked == {i \in 1..Len(s) : s[i] # " "}
    IN  IF inked = {} THEN <<>>
        ELSE SubSeq(s, Min(inked), CHOOSE j \in inked : \A k \in inked : k <= j)

\* needle in hay
Contains(hay, needle) ==
    \E i \in 1..(Len(hay) - Len(needle) + 1) :
        \A k \in 1..Len(needle) : hay[i + k - 1] = needle[k]

\* int(s) for a string of decimal digits
RECURSIVE ToInt(_)
ToInt(s) ==
    IF s = <<>> THEN 0
    ELSE 10 * ToInt(SubSeq(s, 1, Len(s) - 1)) + DigitVal(s[Len(s)])

\* str(n) for n >= 0
RECURSIVE IntToStr(_)
IntToStr(n) ==
    IF n < 10 THEN <<Digits[n + 1]>>
    ELSE IntToStr(n \div 10) \o <<Digits[(n % 10) + 1]>>

(***************************************************************************)
(* Time: datetime of Python, pytz.                                         *)
(***************************************************************************)
IsLeap(y) == (y % 4 = 0 /\ y % 100 # 0) \/ y % 400 = 0

DaysInMonth(y, m) ==
    IF m = 2 THEN (IF IsLeap(y) THEN 29 ELSE 28)
    ELSE IF m \in {4, 6, 9, 11} THEN 30 ELSE 31

RECURSIVE DateFrom(_, _, _)
DateFrom(y, m, d) ==
    IF d < DaysInMonth(y, m) THEN [year |-> y, month |-> m, day |-> d + 1]
    ELSE IF m = 12 THEN DateFrom(y + 1, 1, d - DaysInMonth(y, m))
    ELSE DateFrom(y, m + 1, d - DaysInMonth(y, m))

\* the calendar date of day number d (day 0 is 2024-01-01)
DateOfDay(d) == DateFrom(2024, 1, d)

\* the day number of the local date at instant h in a zone `offset` hours from UTC
LocalDay(h, offset) == (h + offset) \div 24

\* America/Sao_Paulo is UTC-3 the whole year (no daylight saving since 2019)
SaoPauloOffset == 0 - 3

\* datetime.now(self.timezone): the local date of the instant in Sao Paulo
_get_current_time(clock) ==
    LET d == LocalDay(clock, SaoPauloOffset)
    IN  [day |-> d, month |-> DateOfDay(d).month, year |-> DateOfDay(d).year]

(***************************************************************************)
(* FinanceBot._parse_date_query                                            *)
(***************************************************************************)
months_pt ==
  << [name |-> <<"j","a","n","e","i","r","o">>, num |-> 1],
     [name |-> <<"j","a","n">>, num |-> 1],
     [name |-> <<"f","e","v","e","r","e","i","r","o">>, num |-> 2],
     [name |-> <<"f","e","v">>, num |-> 2],
     [name |-> <<"m","a","r","c","o">>, num |-> 3],
     [name |-> <<"m","a","r">>, num |-> 3],
     [name |-> <<"a","b","r","i","l">>, num |-> 4],
     [name |-> <<"a","b","r">>, num |-> 4],
     [name |-> <<"m","a","i","o">>, num |-> 5],
     [name |-> <<"m","a","i">>, num |-> 5],
     [name |-> <<"j","u","n","h","o">>, num |-> 6],
     [name |-> <<"j","u","n">>, num |-> 6],
     [name |-> <<"j","u","l","h","o">>, num |-> 7],
     [name |-> <<"j","u","l">>, num |-> 7],
     [name |-> <<"a","g","o","s","t","o">>, num |-> 8],
     [name |-> <<"a","g","o">>, num |-> 8],
     [name |-> <<"s","e","t","e","m","b","r","o">>, num |-> 9],
     [name |-> <<"s","e","t">>, num |-> 9],
     [name |-> <<"o","u","t","u","b","r","o">>, num |-> 10],
     [name |-> <<"o","u","t">>, num |-> 10],
     [name |-> <<"n","o","v","e","m","b","r","o">>, num |-> 11],
     [name |-> <<"n","o","v">>, num |-> 11],
     [name |-> <<"d","e","z","e","m","b","r","o">>, num |-> 12],
     [name |-> <<"d","e","z">>, num |-> 12] >>

months_names ==
  << <<"J","a","n","e","i","r","o">>,
     <<"F","e","v","e","r","e","i","r","o">>,
     <<"M","a","r","ç","o">>,
     <<"A","b","r","i","l">>,
     <<"M","a","i","o">>,
     <<"J","u","n","h","o">>,
     <<"J","u","l","h","o">>,
     <<"A","g","o","s","t","o">>,
     <<"S","e","t","e","m","b","r","o">>,
     <<"O","u","t","u","b","r","o">>,
     <<"N","o","v","e","m","b","r","o">>,
     <<"D","e","z","e","m","b","r","o">> >>

str_de_2024 == <<" ","d","e"," ","2","0","2","4">>
str_slash_2024 == <<"/","2","0","2","4">>
str_de == <<" ","d","e"," ">>
str_este_mes == <<"e","s","t","e"," ","m","ê","s">>
str_lunch == <<"l","u","n","c","h">>
str_gasto_exemplo == <<"G","a","s","t","o"," ","e","x","e","m","p","l","o">>
str_gasto_via == <<"G","a","s","t","o"," ","v","i","a"," ","F","i","n","a","n","c","e","B","o","t">>

\* the test of line 74: f"{month_name} de 2024" in message_lower
\*                    or f"{month_name}/2024" in message_lower
MonthNameHit(message_lower, month_name) ==
    \/ Contains(message_lower, month_name \o str_de_2024)
    \/ Contains(message_lower, month_name \o str_slash_2024)

\* the pattern (\d{1,2})/(\d{4}) matched at position i with a first group of
\* k digits
PatternAt(s, i, k) ==
    /\ i + k + 4 <= Len(s)
    /\ \A j \in i..(i + k - 1) : IsDigit(s[j])
    /\ s[i + k] = "/"
    /\ \A j \in (i + k + 1)..(i + k + 4) : IsDigit(s[j])

\* re.search(r"(\d{1,2})/(\d{4})", s): the leftmost match, its first group
\* greedy; <<>> stands for None
re_search(s) ==
    LET starts == {i \in 1..Len(s) : PatternAt(s, i, 2) \/ PatternAt(s, i, 1)}
    IN  IF starts = {} THEN <<>>
        ELSE LET i == Min(starts)
                 k == IF PatternAt(s, i, 2) THEN 2 ELSE 1
             IN  << SubSeq(s, i, i + k - 1), SubSeq(s, i + k + 1, i + k + 4) >>

\* the default of lines 100-105
CurrentMonthDefault(now) ==
    [type |-> "current_month", month |-> now.month, year |-> now.year,
     description |-> str_este_mes]

\* lines 83-97: the numeric branch, falling through to the default
NumericOrDefault(message_lower, now) ==
    LET match == re_search(message_lower)
    IN  IF match # <<>> /\ 1 <= ToInt(match[1]) /\ ToInt(match[1]) <= 12
        THEN [type |-> "specific_month",
              month |-> ToInt(match[1]),
              year |-> ToInt(match[2]),
              description |-> months_names[ToInt(match[1])] \o str_de
                              \o IntToStr(ToInt(match[2]))]
        ELSE CurrentMonthDefault(now)

_parse_date_query(message, clock) ==
    LET message_lower == Strip(StrLower(message))
        now == _get_current_time(clock)
        hits == {i \in 1..Len(months_pt) : MonthNameHit(message_lower, months_pt[i].name)}
    IN  IF hits # {}
        THEN [type |-> "specific_month",
              month |-> months_pt[Min(hits)].num,
              year |-> 2024,
              description |-> Capitalize(months_pt[Min(hits)].name) \o str_de_2024]
        ELSE NumericOrDefault(message_lower, now)


(***************************************************************************)
(* The parse specification: _parse_date_query applied to an utterance.     *)
(* An utterance is made of phrases.  Each phrase carries, beside its text, *)
(* what its writer means by it (kind, month, year): the parser reads the   *)
(* text only, the properties compare its answer with the meaning.          *)
(***************************************************************************)
Phrases ==
  << [text |-> <<"j","a","n","e","i","r","o"," ","d","e"," ","2","0","2","4">>,
      kind |-> "month_name", month |-> 1, year |-> 2024],
     [text |-> <<"J","a","n","/","2","0","2","4">>,
      kind |-> "month_name", month |-> 1, year |-> 2024],
     [text |-> <<"m","a","r","ç","o"," ","d","e"," ","2","0","2","4">>,
      kind |-> "month_name", month |-> 3, year |-> 2024],
     [text |-> <<"j","a","n","e","i","r","o"," ","d","e"," ","2","0","2","5">>,
      kind |-> "month_name", month |-> 1, year |-> 2025],
     [text |-> <<"0","5","/","2","0","2","4">>,
      kind |-> "numeric", month |-> 5, year |-> 2024],
     [text |-> <<"3","/","2","0","2","5">>,
      kind |-> "numeric", month |-> 3, year |-> 2025],
     [text |-> <<"1","3","/","2","0","2","4">>,
      kind |-> "numeric", month |-> 13, year |-> 2024],
     [text |-> <<"0","0","/","2","0","2","4">>,
      kind |-> "numeric", month |-> 0, year |-> 2024],
     [text |-> <<"1","0","1","/","2","0","2","4">>,
      kind |-> "numeric", month |-> 101, year |-> 2024],
     [text |-> <<"ú","l","t","i","m","o","s"," ","7"," ","d","i","a","s">>,
      kind |-> "last_n_days", month |-> 0, year |-> 0],
     [text |-> <<"e","s","t","e"," ","a","n","o">>,
      kind |-> "current_year", month |-> 0, year |-> 0],
     [text |-> <<"q","u","a","n","t","o"," ","g","a","s","t","e","i">>,
      kind |-> "other", month |-> 0, year |-> 0] >>

PhraseLists == UNION {[1..n -> Range(Phrases)] : n \in 1..MaxPhrases}

\* the text of an utterance: its phrases joined by single spaces
RECURSIVE JoinPhrases(_)
JoinPhrases(ps) ==
    IF Len(ps) = 1 THEN ps[1].text
    ELSE ps[1].text \o <<" ">> \o JoinPhrases(Tail(ps))

ParseIdle == p_phrases = <<>> /\ p_now = ClockStart /\ p_result = NotCalled

ParseInputs ==
    /\ p_phrases \in PhraseLists
    /\ p_now \in Clocks
    /\ p_result = NotCalled

ParseCall ==
    /\ p_result = NotCalled
    /\ p_result' = Returned(_parse_date_query(JoinPhrases(p_phrases), p_now))
    /\ UNCHANGED <<p_phrases, p_now, exceptParse>>

\* what the utterance holds, by the meaning of its phrases
ValidNumeric(ph) == ph.kind = "numeric" /\ ph.month \in 1..12
InvalidNumeric(ph) == ph.kind = "numeric" /\ ph.month \notin 1..12
HasPhrase(Test(_)) == \E i \in 1..Len(p_phrases) : Test(p_phrases[i])
IsMonthName(ph) == ph.kind = "month_name"
IsLastNDays(ph) == ph.kind = "last_n_days"
IsCurrentYear(ph) == ph.kind = "current_year"

ParseDone == p_result # NotCalled
p_ret == p_result[1]

\* C4: an utterance that holds a valid MM/YYYY token (month in 1..12) is
\* resolved to specific_month with the month and year of such a token,
\* whatever else the utterance holds.
C4_ValidTokenWins ==
    (ParseDone /\ HasPhrase(ValidNumeric)) =>
        /\ p_ret.type = "specific_month"
        /\ \E i \in 1..Len(p_phrases) :
              /\ ValidNumeric(p_phrases[i])
              /\ p_ret.month = p_phrases[i].month
              /\ p_ret.year = p_phrases[i].year

\* C5: an utterance whose numeric month token is outside 1..12 (and that
\* holds no valid numeric token) is resolved to the current_month default
\* anchored to now, never to specific_month.
C5_InvalidTokenDefaults ==
    (ParseDone /\ HasPhrase(InvalidNumeric) /\ ~HasPhrase(ValidNumeric)) =>
        p_ret = CurrentMonthDefault(_get_current_time(p_now))

\* C6: an utterance that holds a month name followed by a 4-digit year is
\* resolved to specific_month with the number of such a name and the year
\* written after it.
C6_MonthNameAnyYear ==
    (ParseDone /\ HasPhrase(IsMonthName)) =>
        /\ p_ret.type = "specific_month"
        /\ \E i \in 1..Len(p_phrases) :
              /\ IsMonthName(p_phrases[i])
              /\ p_ret.month = p_phrases[i].month
              /\ p_ret.year = p_phrases[i].year

\* C7: an utterance that holds a relative-period phrase is resolved to a
\* descriptor of the kind of that phrase: last 7 days to last_n_days (the
\* query engine's name for it is last_7_days), this year to current_year.
C7_RelativePeriods ==
    /\ (ParseDone /\ HasPhrase(IsLastNDays)) =>
           p_ret.type \in {"last_n_days", "last_7_days"}
    /\ (ParseDone /\ HasPhrase(IsCurrentYear)) =>
           p_ret.type = "current_year"


(***************************************************************************)
(* DataCollector: the table gastos and its fallback.                       *)
(* A row is [data, valor, categoria, descricao, forma_pagamento]; data is  *)
(* a day number (the column is a date, read back as midnight of that day). *)
(***************************************************************************)
\* insertion of one row into a frame kept sorted by data descending; rows of
\* equal date keep their table order (the order SQL leaves open)
RECURSIVE InsertByDateDesc(_, _)
InsertByDateDesc(sorted, row) ==
    IF sorted = <<>> THEN <<row>>
    ELSE IF Head(sorted).data >= row.data
         THEN <<Head(sorted)>> \o InsertByDateDesc(Tail(sorted), row)
         ELSE <<row>> \o sorted

\* SELECT * FROM gastos ORDER BY data DESC
RECURSIVE OrderByDataDesc(_)
OrderByDataDesc(table) ==
    IF table = <<>> THEN <<>>
    ELSE InsertByDateDesc(OrderByDataDesc(SubSeq(table, 1, Len(table) - 1)),
                          table[Len(table)])

\* collect_sample_data(): rows made at random, each dated
\* random.randint(0, 30) days before datetime.now() (system local date
\* `today`) and valued 15.00 to 300.00.  ages are the draws of randint the
\* model follows; the value it keeps is the least.
SampleRowSet(today, ages) ==
    [data : {today - a : a \in ages}, valor : {1500}, categoria : {"Lazer"},
     descricao : {str_gasto_exemplo}, forma_pagamento : {"PIX"}]

collect_sample_data(today, ages) == [1..SampleRows -> SampleRowSet(today, ages)]

\* load_from_database(): the table ordered by date, or, when the read
\* raises, the sample frame `sample` of collect_sample_data()
load_from_database(table, readOk, sample) ==
    IF readOk THEN OrderByDataDesc(table) ELSE sample

\* a variant of the store that writes with if_exists='replace'
insert_new_expense_replace(ledger, row, insertOk) ==
    IF insertOk THEN <<row>> ELSE ledger

\* a variant of the store whose failing insert leaves the row behind
insert_new_expense_dirty(ledger, row, insertOk) == Append(ledger, row)

\* insert_new_expense(), lines 44-58: the row appended, or nothing when
\* the insert raises
insert_new_expense(ledger, row, insertOk) ==
    IF insertOk THEN Append(ledger, row) ELSE ledger

(***************************************************************************)
(* FinanceBot._query_expenses_by_period                                    *)
(***************************************************************************)
InMonth(row, month, year) ==
    DateOfDay(row.data).month = month /\ DateOfDay(row.data).year = year

\* lines 134-138.  df['data'] >= seven_days_ago.date() compares a
\* datetime64 column with a datetime.date: pandas raises TypeError there
\* in its current versions and compares the dates in earlier ones, so
\* dateCmpRaises is the library's choice.  The raise is caught at line 148.
Last7Days(df, now, dateCmpRaises) ==
    IF dateCmpRaises THEN <<>>
    ELSE LET Keep(row) == row.data >= now.day - 7 IN SelectSeq(df, Keep)

\* df is what load_from_database() returned at line 111
_query_expenses_by_period(period_info, df, clock, dateCmpRaises) ==
    LET now == _get_current_time(clock)
        KeepSpecific(row) == InMonth(row, period_info.month, period_info.year)
        KeepCurrent(row) == InMonth(row, now.month, now.year)
        KeepYear(row) == DateOfDay(row.data).year = period_info.year
    IN  IF df = <<>> THEN df
        ELSE CASE period_info.type = "specific_month" -> SelectSeq(df, KeepSpecific)
               [] period_info.type = "current_month" -> SelectSeq(df, KeepCurrent)
               [] period_info.type = "last_month" -> SelectSeq(df, KeepSpecific)
               [] period_info.type = "last_7_days" -> Last7Days(df, now, dateCmpRaises)
               [] period_info.type = "current_year" -> SelectSeq(df, KeepYear)
               [] OTHER -> df

(***************************************************************************)
(* The query specification: _query_expenses_by_period applied to a period  *)
(* descriptor over a table.                                                *)
(***************************************************************************)
\* 2024-01-20, 2024-01-25, 2024-01-31, 2024-02-01 and 2025-01-31
RowDays == {19, 24, 30, 31, 396}

QueryRowSet ==
    [data : RowDays, valor : {5000}, categoria : {"Alimentação"},
     descricao : {str_lunch}, forma_pagamento : {"PIX"}]

Tables(RowSet) == UNION {[1..n -> RowSet] : n \in 0..MaxRows}

PeriodTypes ==
    {"specific_month", "current_month", "last_month", "last_7_days",
     "current_year", "all_time"}

PeriodInfos == [type : PeriodTypes, month : {1, 2}, year : {2024, 2025}]

\* the system's local zone is the deployment's: UTC in a container, or the
\* zone of the user
SystemOffsets == {0, SaoPauloOffset}

\* the sample frame matters only when the read fails
QueryEnvs ==
    [clock : Clocks, readOk : {TRUE}, dateCmpRaises : BOOLEAN, sample : {<<>>}]
    \cup UNION {[clock : {c}, readOk : {FALSE}, dateCmpRaises : BOOLEAN,
                 sample : collect_sample_data(LocalDay(c, o), {0, 30})] :
                   c \in Clocks, o \in SystemOffsets}

QueryIdle ==
    /\ q_table = <<>>
    /\ q_period = [type |-> "all_time", month |-> 1, year |-> 2024]
    /\ q_env = [clock |-> ClockStart, readOk |-> TRUE, dateCmpRaises |-> FALSE,
                sample |-> <<>>]
    /\ q_result = NotCalled

QueryInputs ==
    /\ q_table \in Tables(QueryRowSet)
    /\ q_period \in PeriodInfos
    /\ q_env \in QueryEnvs
    /\ q_result = NotCalled

QueryCall ==
    /\ q_result = NotCalled
    /\ q_result' = Returned(_query_expenses_by_period(
                       q_period,
                       load_from_database(q_table, q_env.readOk, q_env.sample),
                       q_env.clock, q_env.dateCmpRaises))
    /\ UNCHANGED <<q_table, q_period, q_env, exceptQuery>>

QueryDone == q_result # NotCalled
q_ret == q_result[1]

Count(seq, x) == Cardinality({i \in 1..Len(seq) : seq[i] = x})

\* the predicate the descriptor's kind selects, by the descriptor alone
Selected(row, period_info, now) ==
    CASE period_info.type \in {"specific_month", "current_month"} ->
             InMonth(row, period_info.month, period_info.year)
      [] period_info.type = "last_7_days" -> row.data >= now.day - 7
      [] period_info.type = "current_year" ->
             DateOfDay(row.data).year = period_info.year
      [] OTHER -> TRUE

\* C8: the rows returned are exactly the rows of the ledger that the
\* descriptor's kind selects: none that matches is left out, none that
\* does not match (or is not in the ledger) is returned.
C8_ExactSelection ==
    (QueryDone /\ q_period.type # "last_month") =>
        \A row \in Range(q_table) \cup Range(q_ret) :
            Count(q_ret, row) =
                IF Selected(row, q_period, _get_current_time(q_env.clock))
                THEN Count(q_table, row) ELSE 0


\* C27: every row _query_expenses_by_period returns is a row of the
\* table, and a read of the table that fails gives no rows.
C27_OnlyStoredRecords ==
    QueryDone =>
        /\ Range(q_ret) \subseteq Range(q_table)
        /\ ~q_env.readOk => q_ret = <<>>

(***************************************************************************)
(* DataAnalyzer                                                            *)
(***************************************************************************)
\* the order in which pandas sorts the group keys (code point order)
CategoryOrder ==
    <<"Alimentação", "Lazer", "Mensalidades", "Outros", "Roupas", "Saúde",
      "Transporte">>

Categories == Range(CategoryOrder)

SumOf(df, categoria) ==
    LET Of(row) == row.categoria = categoria
        rows == SelectSeq(df, Of)
    IN  SumSeq([i \in 1..Len(rows) |-> rows[i].valor])

\* gastos_por_categoria(): df.groupby('categoria')['valor'].sum(), a Series
\* indexed by the categories present, in sorted key order
gastos_por_categoria(df) ==
    LET Present(c) == \E i \in 1..Len(df) : df[i].categoria = c
        keys == SelectSeq(CategoryOrder, Present)
    IN  [i \in 1..Len(keys) |-> [categoria |-> keys[i], valor |-> SumOf(df, keys[i])]]

\* Series.idxmax(): the label of the first row that holds the maximum
idxmax(series) ==
    LET best == {i \in 1..Len(series) :
                    \A j \in 1..Len(series) : series[j].valor <= series[i].valor}
    IN  series[Min(best)].categoria

MaxOf(S) == CHOOSE x \in S : \A y \in S : y <= x

\* a mean or a median is a fraction num/den, kept unreduced
Fraction(num, den) == [num |-> num, den |-> den]

\* Series.median(): the middle value, or the mean of the two middle values
Median(values) ==
    LET n == Len(values)
        \* the k-th smallest value
        Kth(k) == CHOOSE v \in Range(values) :
                     /\ Cardinality({i \in 1..n : values[i] < v}) < k
                     /\ Cardinality({i \in 1..n : values[i] <= v}) >= k
    IN  IF n % 2 = 1 THEN Fraction(Kth((n + 1) \div 2), 1)
        ELSE Fraction(Kth(n \div 2) + Kth(n \div 2 + 1), 2)

\* the mapping with no key: {}
EmptyDict == <<>>

\* a variant that answers an empty frame with a record of zeros and 'N/A'
get_estatisticas_basicas_sentinel(df) ==
    IF Len(df) = 0
    THEN [total_gastos |-> 0, media_gastos |-> Fraction(0, 1),
          mediana_gastos |-> Fraction(0, 1), maior_gasto |-> 0, menor_gasto |-> 0,
          total_transacoes |-> 0, categoria_mais_gasta |-> "N/A"]
    ELSE [total_gastos |-> SumSeq([i \in 1..Len(df) |-> df[i].valor]),
          media_gastos |-> Fraction(SumSeq([i \in 1..Len(df) |-> df[i].valor]), Len(df)),
          mediana_gastos |-> Median([i \in 1..Len(df) |-> df[i].valor]),
          maior_gasto |-> MaxOf({df[i].valor : i \in 1..Len(df)}),
          menor_gasto |-> Min({df[i].valor : i \in 1..Len(df)}),
          total_transacoes |-> Len(df),
          categoria_mais_gasta |-> df[1].categoria]
\* get_estatisticas_basicas(), lines 129-143
get_estatisticas_basicas(df) ==
    IF Len(df) = 0 THEN EmptyDict
    ELSE LET values == [i \in 1..Len(df) |-> df[i].valor]
         IN  [total_gastos |-> SumSeq(values),
              media_gastos |-> Fraction(SumSeq(values), Len(df)),
              mediana_gastos |-> Median(values),
              maior_gasto |-> MaxOf(Range(values)),
              menor_gasto |-> Min(Range(values)),
              total_transacoes |-> Len(df),
              categoria_mais_gasta |->
                  IF gastos_por_categoria(df) # <<>>
                  THEN idxmax(gastos_por_categoria(df)) ELSE "N/A"]

\* Series.sort_values(ascending=False) with the default kind, quicksort,
\* which is not a stable sort: every arrangement of the series in
\* non-increasing order of value is a result the library may give
sort_values_desc(series) ==
    {sorted \in [1..Len(series) -> Range(series)] :
        /\ \A x \in Range(series) : \E i \in 1..Len(sorted) : sorted[i] = x
        /\ \A i \in 1..(Len(sorted) - 1) : sorted[i].valor >= sorted[i + 1].valor}

(***************************************************************************)
(* The statistics specification: the analyzer applied to a DataFrame, as   *)
(* _generate_dynamic_analysis does at lines 354-378.                       *)
(***************************************************************************)
StatsRowSet ==
    [data : {30}, valor : {10000, 20000, 30000}, categoria : {"Alimentação", "Lazer"},
     descricao : {str_lunch}, forma_pagamento : {"PIX"}]

Frames == UNION {[1..n -> StatsRowSet] : n \in 0..MaxFrame}

StatsIdle == s_df = <<>> /\ s_out = NotCalled

StatsInputs == s_df \in Frames /\ s_out = NotCalled

StatsCall ==
    /\ s_out = NotCalled
    /\ \E ordenadas \in sort_values_desc(gastos_por_categoria(s_df)) :
          s_out' = Returned(
                   [stats |-> get_estatisticas_basicas(s_df),
                    categoria_gastos |-> gastos_por_categoria(s_df),
                    categorias_ordenadas |-> ordenadas])
    /\ UNCHANGED <<s_df, exceptStats>>

StatsDone == s_out # NotCalled
s_ret == s_out[1]

\* the reading of a statistic with a default: stats.get(key, default)
DictGet(dict, key, default) == IF key \in DOMAIN dict THEN dict[key] ELSE default

FirstSeen(df, categoria) == Min({i \in 1..Len(df) : df[i].categoria = categoria})

\* C10: the categories are reported by summed amount, largest first, and
\* of two categories with equal sums the one met first in the queried
\* rows comes first; the first reported is the dominant category.
C10_TiesByFirstSeen ==
    (StatsDone /\ s_df # <<>>) =>
        LET o == s_ret.categorias_ordenadas
        IN  /\ \A i \in 1..(Len(o) - 1) :
                  \/ o[i].valor > o[i + 1].valor
                  \/ /\ o[i].valor = o[i + 1].valor
                     /\ FirstSeen(s_df, o[i].categoria) < FirstSeen(s_df, o[i + 1].categoria)
            /\ s_ret.stats.categoria_mais_gasta = o[1].categoria

(***************************************************************************)
(* FinanceBotMemory                                                        *)
(***************************************************************************)
\* timedelta(hours=1) of update_memory, in hours
StalenessHours == 1

\* df['data'].dt.to_period('M') of a row, as a number that orders months
MonthKey(row) == DateOfDay(row.data).year * 12 + DateOfDay(row.data).month

\* df.groupby(df['data'].dt.to_period('M'))['valor'].sum()
monthly_totals(df) ==
    LET keys == {MonthKey(df[i]) : i \in 1..Len(df)}
    IN  [k \in keys |->
            LET Of(row) == MonthKey(row) = k
                rows == SelectSeq(df, Of)
            IN  SumSeq([i \in 1..Len(rows) |-> rows[i].valor])]

\* _get_monthly_average(): the mean of the monthly totals
_get_monthly_average(df) ==
    LET mt == monthly_totals(df)
    IN  IF DOMAIN mt = {} THEN Fraction(0, 1)
        ELSE Fraction(SumSeq([i \in 1..Len(df) |-> df[i].valor]), Cardinality(DOMAIN mt))

\* _get_spending_trend(), lines 71-83 ("Indefinido" is the answer of the
\* except clause, which a frame with a date column never reaches)
_get_spending_trend(df) ==
    LET mt == monthly_totals(df)
    IN  IF Cardinality(DOMAIN mt) >= 2
        THEN LET last == MaxOf(DOMAIN mt)
                 prev == MaxOf(DOMAIN mt \ {last})
             IN  IF mt[last] > mt[prev] THEN "Crescente"
                 ELSE IF mt[last] < mt[prev] THEN "Decrescente"
                 ELSE "Estável"
        ELSE "Estável"

\* a variant that raises the concentration alert from a share of 60% on
_generate_spending_alerts_from_60(df, stats) ==
    LET cg == gastos_por_categoria(df)
        total == SumSeq([i \in 1..Len(cg) |-> cg[i].valor])
        maxcat == MaxOf({cg[i].valor : i \in 1..Len(cg)})
    IN  IF cg # <<>> /\ maxcat * 10 >= total * 6
        THEN <<[kind |-> "concentrado", categoria |-> idxmax(cg),
                percentual |-> Fraction(maxcat * 100, total)]>>
        ELSE <<>>

\* _generate_spending_alerts(), lines 85-102.  An alert is kept as its
\* kind, the category it names and the percentage it states (a fraction).
_generate_spending_alerts(df, stats) ==
    LET cg == gastos_por_categoria(df)
        total == SumSeq([i \in 1..Len(cg) |-> cg[i].valor])
        maxcat == MaxOf({cg[i].valor : i \in 1..Len(cg)})
        atipico ==
            \* maior_gasto > media_gastos * 3
            IF stats.maior_gasto * stats.media_gastos.den > stats.media_gastos.num * 3
            THEN <<[kind |-> "atipico", categoria |-> "", percentual |-> Fraction(0, 1)]>>
            ELSE <<>>
        concentrado ==
            \* max_categoria / total > 0.6
            IF cg # <<>> /\ maxcat * 10 > total * 6
            THEN <<[kind |-> "concentrado", categoria |-> idxmax(cg),
                    percentual |-> Fraction(maxcat * 100, total)]>>
            ELSE <<>>
    IN  atipico \o concentrado

\* _generate_recommendations(), lines 104-120
_generate_recommendations(stats) ==
    CASE stats.categoria_mais_gasta = "Alimentação" -> <<"cozinhar em casa", "listas de compras">>
      [] stats.categoria_mais_gasta = "Lazer" -> <<"orçamento de lazer", "atividades gratuitas">>
      [] stats.categoria_mais_gasta = "Transporte" -> <<"transporte econômico", "combustível">>
      [] OTHER -> <<>>

\* The memory is [user_profile, insights_cache, last_update]; last_update
\* is <<>> for None and <<instant>> otherwise.  Of the profile the model
\* keeps the fields below (not forma_pagamento_preferida), of the insights
\* the sums by category (not gastos_recorrentes, metas_sugeridas).
NewMemory == [user_profile |-> EmptyDict, insights_cache |-> EmptyDict, last_update |-> <<>>]

\* _analyze_spending_patterns(), lines 28-52, for a frame that is not empty
_analyze_spending_patterns(memory, df) ==
    LET stats == get_estatisticas_basicas(df)
    IN  [memory EXCEPT
            !.user_profile =
                [total_gastos |-> stats.total_gastos,
                 media_mensal |-> _get_monthly_average(df),
                 categoria_favorita |-> stats.categoria_mais_gasta,
                 tendencia_gastos |-> _get_spending_trend(df),
                 alertas_ativos |-> _generate_spending_alerts(df, stats),
                 recomendacoes |-> _generate_recommendations(stats)],
            !.insights_cache = [gastos_por_categoria |-> gastos_por_categoria(df)]]

\* _load_user_profile(), lines 18-26; df is what load_from_database() gave
_load_user_profile(memory, df, clock) ==
    IF df # <<>>
    THEN [_analyze_spending_patterns(memory, df) EXCEPT !.last_update = <<clock>>]
    ELSE memory

\* the test of line 186
IsStale(memory, clock) ==
    \/ memory.last_update = <<>>
    \/ clock - memory.last_update[1] > StalenessHours

\* update_memory(), lines 184-187
update_memory(memory, df, clock) ==
    IF IsStale(memory, clock) THEN _load_user_profile(memory, df, clock) ELSE memory

(***************************************************************************)
(* The memory specification: one FinanceBotMemory over a table that grows, *)
(* update_memory() called as time passes.                                  *)
(***************************************************************************)
\* rows of two months, two categories and amounts that make a share of
\* exactly 60% (60.00 against 40.00) and shares above and below it
MemRowSet ==
    [data : {30, 31}, valor : {4000, 6000}, categoria : {"Alimentação", "Lazer"},
     descricao : {str_lunch}, forma_pagamento : {"PIX"}]

\* what a read of the table gives: the table, or a sample frame
MemReads(table, clock) ==
    {load_from_database(table, TRUE, <<>>)}
    \cup {load_from_database(table, FALSE, sample) :
            sample \in UNION {collect_sample_data(LocalDay(clock, o), {0}) :
                                o \in SystemOffsets}}

NoUpdate == [called |-> FALSE, at |-> 0, scanned |-> FALSE, df |-> <<>>,
             before |-> NewMemory, prev |-> <<>>]

MemIdle ==
    /\ m_clock = BotStart
    /\ m_table = <<>>
    /\ m_memory = NewMemory
    /\ m_calls = 0
    /\ m_last = NoUpdate

\* FinanceBotMemory.__init__(), lines 11-16: the profile is loaded
MemConstructed ==
    /\ m_clock = BotStart
    /\ m_table \in Tables(MemRowSet)
    /\ \E df \in MemReads(m_table, m_clock) :
          m_memory = _load_user_profile(NewMemory, df, m_clock)
    /\ m_calls = 0
    /\ m_last = NoUpdate

\* one call of update_memory(); m_last keeps the instant of the call,
\* whether it scanned the table, the frame it scanned, the memory before
\* it, and [at, scanned] of the call before it
MemUpdate ==
    /\ m_calls < MaxMemCalls
    /\ \E df \in MemReads(m_table, m_clock) :
          /\ m_memory' = update_memory(m_memory, df, m_clock)
          /\ m_last' = [called |-> TRUE, at |-> m_clock,
                        scanned |-> IsStale(m_memory, m_clock),
                        df |-> IF IsStale(m_memory, m_clock) THEN df ELSE <<>>,
                        before |-> m_memory,
                        prev |-> IF m_last.called
                                 THEN <<[at |-> m_last.at, scanned |-> m_last.scanned]>>
                                 ELSE <<>>]
    /\ m_calls' = m_calls + 1
    /\ UNCHANGED <<m_clock, m_table, exceptMem>>

\* an hour passes
MemTick ==
    /\ m_clock < BotEnd
    /\ m_clock' = m_clock + 1
    /\ UNCHANGED <<m_table, m_memory, m_calls, m_last, exceptMem>>

\* a row is written to the table (insert_new_expense succeeded)
MemInsert ==
    /\ Len(m_table) < MaxRows
    /\ \E row \in MemRowSet : m_table' = insert_new_expense(m_table, row, TRUE)
    /\ UNCHANGED <<m_clock, m_memory, m_calls, m_last, exceptMem>>

MemNext == MemUpdate \/ MemTick \/ MemInsert

MemCalled == m_last.called
MemScanned == m_last.called /\ m_last.scanned

\* C11: of two update_memory() calls within the staleness window, the
\* first of which scanned the table, the second does not scan and leaves
\* user_profile, insights_cache and last_update as they were, whatever the
\* table holds.
C11_SecondCallWithinWindowIsNoOp ==
    (/\ MemCalled
     /\ m_last.prev # <<>>
     /\ m_last.prev[1].scanned
     /\ m_last.at - m_last.prev[1].at <= StalenessHours) =>
        /\ ~m_last.scanned
        /\ m_memory = m_last.before

\* C12: at the instant update_memory() has been called, last_update is set
\* and is at most the staleness window old.
C12_LastUpdateFreshAfterCall ==
    (MemCalled /\ m_clock = m_last.at) =>
        /\ m_memory.last_update # <<>>
        /\ m_clock - m_memory.last_update[1] <= StalenessHours

\* the trend by the rule of two months: the totals of the two most recent
\* calendar months compared, "Indefinido" with fewer than two months
TrendByRule(df) ==
    LET mt == monthly_totals(df)
    IN  IF Cardinality(DOMAIN mt) < 2 THEN "Indefinido"
        ELSE LET last == MaxOf(DOMAIN mt)
                 prev == MaxOf(DOMAIN mt \ {last})
             IN  IF mt[last] > mt[prev] THEN "Crescente"
                 ELSE IF mt[last] < mt[prev] THEN "Decrescente"
                 ELSE "Estável"

\* C13: after a scan of a frame that is not empty, the trend of the profile
\* is Crescente, Decrescente or Estável by the two most recent month
\* totals, and Indefinido when the frame holds fewer than two months.
C13_TrendByTwoMonths ==
    (MemScanned /\ m_last.df # <<>>) =>
        m_memory.user_profile.tendencia_gastos = TrendByRule(m_last.df)

\* the concentration alerts of the profile
ConcentrationAlerts ==
    SelectSeq(m_memory.user_profile.alertas_ativos, LAMBDA a : a.kind = "concentrado")

\* the largest sum of a category and the sum of all, in the frame scanned
TopShare(df) ==
    [top |-> MaxOf({SumOf(df, c) : c \in Categories}),
     total |-> SumSeq([i \in 1..Len(df) |-> df[i].valor])]

Threads == {"t1", "t2"}

SharedRowSet ==
    [data : {30}, valor : {4000, 6000}, categoria : {"Alimentação", "Lazer"},
     descricao : {str_lunch}, forma_pagamento : {"PIX"}]

SharedIdle ==
    /\ t_clock = BotStart
    /\ t_table = <<>>
    /\ t_memory = NewMemory
    /\ t_pc = <<>>
    /\ t_df = <<>>
    /\ t_versions = {}
    /\ t_seen = NotCalled

\* FinanceBotMemory.__init__(), lines 11-16, over a table that reads well
SharedConstructed ==
    /\ t_clock = BotStart
    /\ t_table \in Tables(SharedRowSet)
    /\ t_memory = _load_user_profile(NewMemory, load_from_database(t_table, TRUE, <<>>), t_clock)
    /\ t_pc = [t \in Threads |-> "idle"]
    /\ t_df = [t \in Threads |-> <<>>]
    /\ t_versions = {t_memory}
    /\ t_seen = NotCalled

\* update_memory(), line 186, and lines 21-22: the test of staleness and
\* the read of the table; an empty frame ends the call
RefreshRead(t) ==
    /\ t_pc[t] = "idle"
    /\ IsStale(t_memory, t_clock) = TRUE
    /\ LET df == load_from_database(t_table, TRUE, <<>>)
       IN  /\ t_df' = [t_df EXCEPT ![t] = df]
           /\ t_pc' = [t_pc EXCEPT ![t] = IF df # <<>> THEN "user_profile" ELSE "idle"]
    /\ UNCHANGED <<t_clock, t_table, t_memory, t_versions, t_seen, exceptShared>>

\* lines 37-45: self.user_profile = {...}
WriteProfile(t) ==
    /\ t_pc[t] = "user_profile"
    /\ t_memory' = [t_memory EXCEPT
                       !.user_profile = _analyze_spending_patterns(t_memory, t_df[t]).user_profile]
    /\ t_pc' = [t_pc EXCEPT ![t] = "insights_cache"]
    /\ UNCHANGED <<t_clock, t_table, t_df, t_versions, t_seen, exceptShared>>

\* lines 48-52: self.insights_cache = {...}
WriteCache(t) ==
    /\ t_pc[t] = "insights_cache"
    /\ t_memory' = [t_memory EXCEPT
                       !.insights_cache = _analyze_spending_patterns(t_memory, t_df[t]).insights_cache]
    /\ t_pc' = [t_pc EXCEPT ![t] = "last_update"]
    /\ UNCHANGED <<t_clock, t_table, t_df, t_versions, t_seen, exceptShared>>

\* line 24: self.last_update = datetime.now(); the refresh is complete,
\* and what it has produced from its frame is a version of the memory
WriteStamp(t) ==
    /\ t_pc[t] = "last_update"
    /\ t_memory' = [t_memory EXCEPT !.last_update = <<t_clock>>]
    /\ t_versions' = t_versions \cup {_load_user_profile(NewMemory, t_df[t], t_clock)}
    /\ t_pc' = [t_pc EXCEPT ![t] = "idle"]
    /\ UNCHANGED <<t_clock, t_table, t_df, t_seen, exceptShared>>

\* a thread reads the cached state: the three fields, at one instant
\* (as _get_budget_advice(), lines 226-235, reads two of them)
SharedRead ==
    /\ t_seen' = Returned(t_memory)
    /\ t_seen' # t_seen
    /\ UNCHANGED <<t_clock, t_table, t_memory, t_pc, t_df, t_versions, exceptShared>>

SharedInsert ==
    /\ Len(t_table) < MaxRows
    /\ \E row \in SharedRowSet : t_table' = insert_new_expense(t_table, row, TRUE)
    /\ UNCHANGED <<t_clock, t_memory, t_pc, t_df, t_versions, t_seen, exceptShared>>

SharedTick ==
    /\ t_clock < BotEnd
    /\ t_clock' = t_clock + 1
    /\ UNCHANGED <<t_table, t_memory, t_pc, t_df, t_versions, t_seen, exceptShared>>

Refresh == \E t \in Threads : RefreshRead(t) \/ WriteProfile(t) \/ WriteCache(t) \/ WriteStamp(t)

SharedNext == Refresh \/ SharedRead \/ SharedInsert \/ SharedTick

Writing(t) == t_pc[t] \in {"user_profile", "insights_cache", "last_update"}

RECURSIVE Split(_, _)
Split(s, sep) ==
    LET cuts == {i \in 1..Len(s) : s[i] = sep}
    IN  IF cuts = {} THEN <<s>>
        ELSE <<SubSeq(s, 1, Min(cuts) - 1)>> \o Split(SubSeq(s, Min(cuts) + 1, Len(s)), sep)

\* str.startswith(prefix)
StartsWith(s, prefix) ==
    Len(s) >= Len(prefix) /\ SubSeq(s, 1, Len(prefix)) = prefix

\* str.replace(old, ""): every occurrence of old removed, left to right
RECURSIVE Remove(_, _)
Remove(s, old) ==
    LET hits == {i \in 1..(Len(s) - Len(old) + 1) : SubSeq(s, i, i + Len(old) - 1) = old}
    IN  IF hits = {} THEN s
        ELSE SubSeq(s, 1, Min(hits) - 1)
             \o Remove(SubSeq(s, Min(hits) + Len(old), Len(s)), old)

\* the end of the run of digits that starts at position k
RunEnd(s, k) ==
    CHOOSE j \in k..Len(s) :
        /\ \A x \in k..j : IsDigit(s[x])
        /\ j = Len(s) \/ ~IsDigit(s[j + 1])

\* re.findall(r'\d+(?:[.,]\d+)?', s)[0] as [int, frac], or <<>> when
\* findall returns no match
first_number(s) ==
    LET starts == {i \in 1..Len(s) : IsDigit(s[i])}
    IN  IF starts = {} THEN <<>>
        ELSE LET i == Min(starts)
                 j == RunEnd(s, i)
                 hasFrac == /\ j + 2 <= Len(s)
                            /\ s[j + 1] \in {".", ","}
                            /\ IsDigit(s[j + 2])
             IN  <<[int |-> SubSeq(s, i, j),
                    frac |-> IF hasFrac THEN SubSeq(s, j + 2, RunEnd(s, j + 2)) ELSE <<>>]>>

\* float(text.replace(',', '.')) in centavos (digits past the second
\* decimal are below the model's unit)
to_centavos(number) ==
    ToInt(number.int) * 100
    + (IF number.frac = <<>> THEN 0
       ELSE IF Len(number.frac) = 1 THEN ToInt(number.frac) * 10
       ELSE ToInt(SubSeq(number.frac, 1, 2)))

categoria_map ==
  << [key |-> <<"c","o","m","i","d","a">>, value |-> "Alimentação"],
     [key |-> <<"f","o","o","d">>, value |-> "Alimentação"],
     [key |-> <<"s","u","p","e","r","m","e","r","c","a","d","o">>, value |-> "Alimentação"],
     [key |-> <<"g","a","s","o","l","i","n","a">>, value |-> "Transporte"],
     [key |-> <<"u","b","e","r">>, value |-> "Transporte"],
     [key |-> <<"o","n","i","b","u","s">>, value |-> "Transporte"],
     [key |-> <<"c","i","n","e","m","a">>, value |-> "Lazer"],
     [key |-> <<"s","t","r","e","a","m","i","n","g">>, value |-> "Lazer"],
     [key |-> <<"d","i","v","e","r","s","ã","o">>, value |-> "Lazer"],
     [key |-> <<"m","é","d","i","c","o">>, value |-> "Saúde"],
     [key |-> <<"f","a","r","m","a","c","i","a">>, value |-> "Saúde"],
     [key |-> <<"r","e","m","e","d","i","o">>, value |-> "Saúde"] >>

\* the list of line 200, each name with the category it spells
canonical ==
  << [text |-> <<"A","l","i","m","e","n","t","a","ç","ã","o">>, categoria |-> "Alimentação"],
     [text |-> <<"T","r","a","n","s","p","o","r","t","e">>, categoria |-> "Transporte"],
     [text |-> <<"L","a","z","e","r">>, categoria |-> "Lazer"],
     [text |-> <<"S","a","ú","d","e">>, categoria |-> "Saúde"],
     [text |-> <<"R","o","u","p","a","s">>, categoria |-> "Roupas"],
     [text |-> <<"M","e","n","s","a","l","i","d","a","d","e","s">>, categoria |-> "Mensalidades"],
     [text |-> <<"O","u","t","r","o","s">>, categoria |-> "Outros"] >>

\* a variant that looks the hint up as it is spelled
categoria_final_as_spelled(categoria) ==
    LET mapped == {i \in 1..Len(categoria_map) : categoria_map[i].key = categoria}
        listed == {i \in 1..Len(canonical) : canonical[i].text = categoria}
    IN  IF mapped # {} THEN categoria_map[Min(mapped)].value
        ELSE IF listed # {} THEN canonical[Min(listed)].categoria
        ELSE "Outros"

\* lines 199-201: categoria_map.get(categoria.lower(), categoria), then
\* "Outros" for what is not in the list
categoria_final(categoria) ==
    LET mapped == {i \in 1..Len(categoria_map) : categoria_map[i].key = StrLower(categoria)}
        listed == {i \in 1..Len(canonical) : canonical[i].text = categoria}
    IN  IF mapped # {} THEN categoria_map[Min(mapped)].value
        ELSE IF listed # {} THEN canonical[Min(listed)].categoria
        ELSE "Outros"

\* A reply (and any turn of the history) is a record of one shape: its
\* kind and the values its text states.
BaseReply ==
    [kind |-> "", text |-> <<>>, valor |-> 0, categoria |-> "", descricao |-> <<>>,
     data |-> 0, dica |-> "", description |-> <<>>, total |-> 0, transacoes |-> 0,
     media |-> Fraction(0, 1), categoria_principal |-> "", valor_principal |-> 0,
     percentual_principal |-> Fraction(0, 1), temas |-> <<>>]

\* The bot's collaborators as one record: the ledger table and the memory.
\* store is the outcome of the store calls of this chat() call: readOk,
\* the sample frame given when a read fails, and insertOk.
StoreRead(ledger, store) == load_from_database(ledger, store.readOk, store.sample)

\* _add_expense(), lines 185-235: [reply, ledger, memory, inserted,
\* attempted], attempted when insert_new_expense was called
_add_expense(valor, categoria, descricao, ledger, memory, store, clock, today) ==
    IF valor <= 0
    THEN [reply |-> [BaseReply EXCEPT !.kind = "valor_invalido"],
          ledger |-> ledger, memory |-> memory, inserted |-> FALSE,
          attempted |-> FALSE]
    ELSE LET novo_gasto == [data |-> today, valor |-> valor,
                            categoria |-> categoria_final(categoria),
                            descricao |-> descricao, forma_pagamento |-> "FinanceBot"]
             saved == insert_new_expense(ledger, novo_gasto, store.insertOk)
         IN  IF store.insertOk
             THEN [reply |-> [BaseReply EXCEPT
                                 !.kind = "registrado", !.valor = valor,
                                 !.categoria = novo_gasto.categoria,
                                 !.descricao = IF descricao # str_gasto_via THEN descricao ELSE <<>>,
                                 !.data = today,
                                 !.dica = IF valor > 20000 THEN "gasto alto"
                                          ELSE IF valor < 2000 THEN "pequenos gastos"
                                          ELSE ""],
                   ledger |-> saved,
                   memory |-> update_memory(memory, StoreRead(saved, store), clock),
                   inserted |-> TRUE, attempted |-> TRUE]
             ELSE [reply |-> [BaseReply EXCEPT !.kind = "nao_salvou"],
                   ledger |-> saved, memory |-> memory, inserted |-> FALSE,
                   attempted |-> TRUE]

\* safe_float(categorias_ordenadas.iloc), lines 329-338 and 379: the
\* argument is the indexer, not a number: float() raises, the object has
\* no attribute iloc and is no list, so the answer is 0.0
safe_float_of_indexer == 0

\* _generate_dynamic_analysis(), lines 325-425 (the definition in force:
\* it replaces the one of line 237): the replies it may give, one for
\* each behaviour of the library.  df is what the store read returns.
AnalysisReply(period_info, df_period, ordenadas) ==
    IF df_period = <<>>
    THEN [BaseReply EXCEPT !.kind = "sem_gastos", !.description = period_info.description]
    ELSE LET stats == get_estatisticas_basicas(df_period)
         IN  IF stats.total_gastos = 0
             THEN \* percentual_principal divides by total: ZeroDivisionError
                  [BaseReply EXCEPT !.kind = "erro_analise"]
             ELSE [BaseReply EXCEPT
                      !.kind = "analise",
                      !.description = period_info.description,
                      !.total = stats.total_gastos,
                      !.transacoes = stats.total_transacoes,
                      !.media = stats.media_gastos,
                      !.categoria_principal = ordenadas[1].categoria,
                      !.valor_principal = safe_float_of_indexer,
                      !.percentual_principal =
                          Fraction(safe_float_of_indexer * 100, stats.total_gastos)]

_generate_dynamic_analysis(message, df, clock) ==
    LET period_info == _parse_date_query(message, clock)
    IN  UNION {
          LET df_period == _query_expenses_by_period(period_info, df, clock, raises)
          IN  {AnalysisReply(period_info, df_period, ordenadas) :
                 ordenadas \in sort_values_desc(gastos_por_categoria(df_period))}
          : raises \in BOOLEAN}

\* the fixed rules of lines 177-181
generic_rules == <<"50/30/20", "esperar 24 horas", "revisar toda semana">>

\* a variant that answers with the fixed rules whatever the profile
_get_financial_advice_generic(memory, df, clock) ==
    [memory |-> update_memory(memory, df, clock),
     reply |-> [BaseReply EXCEPT !.kind = "conselho", !.temas = generic_rules]]

\* _get_financial_advice(), lines 153-183: [reply, memory]; temas are the
\* pieces of advice of the text, named as _generate_recommendations()
\* names the same pieces
_get_financial_advice(memory, df, clock) ==
    LET updated == update_memory(memory, df, clock)
        categoria_dominante == DictGet(updated.user_profile, "categoria_favorita", "")
        media_mensal == DictGet(updated.user_profile, "media_mensal", Fraction(0, 1))
    IN  [memory |-> updated,
         reply |->
            CASE categoria_dominante = "Alimentação" ->
                     [BaseReply EXCEPT
                         !.kind = "conselho", !.categoria = "Alimentação",
                         !.temas = <<"cozinhar em casa", "listas de compras">>,
                         \* media_mensal > 1000
                         !.dica = IF media_mensal.num > 100000 * media_mensal.den
                                  THEN "meta de economia" ELSE ""]
              [] categoria_dominante = "Transporte" ->
                     [BaseReply EXCEPT !.kind = "conselho", !.categoria = "Transporte",
                                       !.temas = <<"transporte econômico", "combustível">>]
              [] categoria_dominante = "Lazer" ->
                     [BaseReply EXCEPT !.kind = "conselho", !.categoria = "Lazer",
                                       !.temas = <<"orçamento de lazer", "atividades gratuitas">>]
              [] OTHER ->
                     [BaseReply EXCEPT !.kind = "conselho", !.temas = generic_rules]]

(***************************************************************************)
(* FinanceBot.chat().                                                      *)
(***************************************************************************)
\* analysis_keywords, lines 482-487
analysis_keywords ==
  << <<"q","u","a","n","t","o">>,
     <<"g","a","s","t","e","i">>,
     <<"g","a","s","t","o">>,
     <<"g","a","s","t","o","s">>,
     <<"a","n","á","l","i","s","e">>,
     <<"a","n","a","l","i","s","e">>,
     <<"r","e","s","u","m","o">>,
     <<"r","e","l","a","t","ó","r","i","o">>,
     <<"j","a","n","e","i","r","o">>,
     <<"f","e","v","e","r","e","i","r","o">>,
     <<"m","a","r","ç","o">>,
     <<"a","b","r","i","l">>,
     <<"m","a","i","o">>,
     <<"j","u","n","h","o">>,
     <<"j","u","l","h","o">>,
     <<"a","g","o","s","t","o">>,
     <<"s","e","t","e","m","b","r","o">>,
     <<"o","u","t","u","b","r","o">>,
     <<"n","o","v","e","m","b","r","o">>,
     <<"d","e","z","e","m","b","r","o">>,
     <<"m","ê","s">>,
     <<"a","n","o">>,
     <<"p","e","r","í","o","d","o">>,
     <<"2","0","2","4">>,
     <<"2","0","2","5">> >>

\* line 489
is_analysis_query(message_lower) ==
    \E i \in 1..Len(analysis_keywords) : Contains(message_lower, analysis_keywords[i])

\* the literals of lines 514-538 and 522
str_ACAO_CADASTRAR == <<"A","C","A","O",":","C","A","D","A","S","T","R","A","R">>
str_ACAO_ANALISAR_GASTOS == <<"A","C","A","O",":","A","N","A","L","I","S","A","R","_","G","A","S","T","O","S">>
str_ACAO_CONSELHOS == <<"A","C","A","O",":","C","O","N","S","E","L","H","O","S">>
str_VALOR == <<"V","A","L","O","R",":">>
str_CATEGORIA == <<"C","A","T","E","G","O","R","I","A",":">>
str_DESCRICAO == <<"D","E","S","C","R","I","C","A","O",":">>
str_Outros == <<"O","u","t","r","o","s">>

\* Utterances given to chat(); the first is the example the interface
\* shows in its input box (chat_interface.py line 115).
msg_gastei_almoco == <<"G","a","s","t","e","i"," ","3","0"," ","r","e","a","i","s"," ","c","o","m"," ","a","l","m","o","ç","o"," ","h","o","j","e">>
msg_paguei_almoco == <<"P","a","g","u","e","i"," ","3","0"," ","r","e","a","i","s"," ","n","o"," ","a","l","m","o","ç","o">>
Utterances == {msg_gastei_almoco, msg_paguei_almoco}

\* What _call_groq() may return (lines 428-468): the model's text, the
\* text of line 468 when the call raises, or None when the completion has
\* no content.
llm_cadastrar_completo == <<"A","C","A","O",":","C","A","D","A","S","T","R","A","R","|","V","A","L","O","R",":","3","0","|","C","A","T","E","G","O","R","I","A",":","c","o","m","i","d","a","|","D","E","S","C","R","I","C","A","O",":","a","l","m","o","ç","o">>
llm_cadastrar_30 == <<"A","C","A","O",":","C","A","D","A","S","T","R","A","R","|","V","A","L","O","R",":","3","0","|","C","A","T","E","G","O","R","I","A",":","c","o","m","i","d","a">>
llm_cadastrar_zero == <<"A","C","A","O",":","C","A","D","A","S","T","R","A","R","|","V","A","L","O","R",":","0","|","C","A","T","E","G","O","R","I","A",":","L","a","z","e","r">>
llm_cadastrar_sem_valor == <<"A","C","A","O",":","C","A","D","A","S","T","R","A","R","|","C","A","T","E","G","O","R","I","A",":","L","a","z","e","r">>
llm_analisar == <<"A","C","A","O",":","A","N","A","L","I","S","A","R","_","G","A","S","T","O","S">>
llm_conselhos == <<"A","C","A","O",":","C","O","N","S","E","L","H","O","S">>
llm_conversar == <<"A","C","A","O",":","C","O","N","V","E","R","S","A","R">>
llm_erro_api == <<"E","r","r","o"," ","n","a"," ","c","h","a","m","a","d","a"," ","d","a"," ","A","P","I",":"," ","t","i","m","e","o","u","t">>
llm_ola == <<"O","l","á","!">>
NoneContent == <<"None">>
IntentResponses ==
    {llm_cadastrar_completo, llm_cadastrar_30, llm_cadastrar_zero,
     llm_cadastrar_sem_valor, llm_analisar, llm_conselhos, llm_conversar,
     llm_erro_api, NoneContent}
ChatResponses == {llm_ola, NoneContent}

\* the cap of lines 565-566
HistoryCap == 10

UserTurn(message) ==
    [role |-> "user", content |-> [BaseReply EXCEPT !.kind = "mensagem", !.text = message]]
AssistantTurn(result) == [role |-> "assistant", content |-> result]

\* a variant that keeps the last 9 entries
LastTurns_odd(history) ==
    IF Len(history) > HistoryCap
    THEN SubSeq(history, Len(history) - HistoryCap + 2, Len(history))
    ELSE history

\* lines 565-566: chat_history[-10:] when longer than 10
LastTurns(history) ==
    IF Len(history) > HistoryCap
    THEN SubSeq(history, Len(history) - HistoryCap + 1, Len(history))
    ELSE history

\* the branch of lines 514-533: [reply, ledger, memory, inserted, attempted]
cadastrar(intent_response, ledger, memory, store, clock, today) ==
    LET parts == Split(intent_response, "|")
        valor_parts == SelectSeq(parts, LAMBDA p : StartsWith(p, str_VALOR))
        categoria_parts == SelectSeq(parts, LAMBDA p : StartsWith(p, str_CATEGORIA))
        descricao_parts == SelectSeq(parts, LAMBDA p : StartsWith(p, str_DESCRICAO))
        Extrair(why) == [reply |-> [BaseReply EXCEPT !.kind = "erro_extrair", !.dica = why],
                         ledger |-> ledger, memory |-> memory, inserted |-> FALSE,
                         attempted |-> FALSE]
    IN  IF Len(valor_parts) = 0
        THEN \* [...][0] of an empty list
             Extrair("IndexError")
        ELSE IF Len(descricao_parts) # 0
        THEN \* line 523 calls replace on the list itself
             Extrair("AttributeError")
        ELSE LET valor_str == Remove(valor_parts[1], str_VALOR)
                 categoria == IF Len(categoria_parts) # 0
                              THEN Remove(categoria_parts[1], str_CATEGORIA)
                              ELSE str_Outros
                 valor_match == first_number(valor_str)
                 valor == IF Len(valor_match) # 0 THEN to_centavos(valor_match[1]) ELSE 0
             IN  _add_expense(valor, categoria, str_gasto_via, ledger, memory, store,
                              clock, today)

\* chat(), lines 470-572: the outcomes of one call, each with the route
\* taken, the reply, and the ledger, memory and history it leaves.
\* store is what the store does during the call, intent_response and
\* chat_response what the two model calls return if they are made,
\* clock the instant and today date.today().
\* steps is what the call did, in order: the append of the user's turn,
\* the refresh of the memory, the classification call, the branch taken
\* and the generation call of the conversation branch.
chat(message, ledger, memory, chat_history, store, intent_response, chat_response, clock, today) ==
    LET h1 == Append(chat_history, UserTurn(message))
        m1 == update_memory(memory, StoreRead(ledger, store), clock)
        Finish(route, result, l, m, inserted) ==
            [route |-> route, reply |-> result, ledger |-> l, memory |-> m,
             inserted |-> inserted, attempted |-> FALSE,
             steps |-> <<"append", "refresh", "classify", route>>
                       \o (IF route = "Chat" THEN <<"generate">> ELSE <<>>),
             chat_history |-> LastTurns(Append(h1, AssistantTurn(result)))]
        \* lines 569-572: the reply is appended and the cap is not applied
        Failed(m) ==
            [route |-> "Error", reply |-> [BaseReply EXCEPT !.kind = "erro_processar"],
             ledger |-> ledger, memory |-> m, inserted |-> FALSE, attempted |-> FALSE,
             steps |-> <<"append", "refresh", "classify">>,
             chat_history |->
                 Append(h1, AssistantTurn([BaseReply EXCEPT !.kind = "erro_processar"]))]
    IN  IF is_analysis_query(StrLower(message))
        THEN \* line 493: no call of _call_groq on this branch
             {[Finish("Analyze", r, ledger, m1, FALSE)
                  EXCEPT !.steps = <<"append", "refresh", "Analyze">>] :
                r \in _generate_dynamic_analysis(message, StoreRead(ledger, store), clock)}
        ELSE IF intent_response = NoneContent
        THEN \* "ACAO:CADASTRAR" in None raises TypeError
             {Failed(m1)}
        ELSE IF Contains(intent_response, str_ACAO_CADASTRAR)
        THEN LET r == cadastrar(intent_response, ledger, m1, store, clock, today)
             IN  {[Finish("Register", r.reply, r.ledger, r.memory, r.inserted)
                      EXCEPT !.attempted = r.attempted]}
        ELSE IF Contains(intent_response, str_ACAO_ANALISAR_GASTOS)
        THEN {Finish("Analyze", r, ledger, m1, FALSE) :
                r \in _generate_dynamic_analysis(message, StoreRead(ledger, store), clock)}
        ELSE IF Contains(intent_response, str_ACAO_CONSELHOS)
        THEN LET r == _get_financial_advice(m1, StoreRead(ledger, store), clock)
             IN  {Finish("Advice", r.reply, ledger, r.memory, FALSE)}
        ELSE IF chat_response = NoneContent
        THEN {Finish("Chat", [BaseReply EXCEPT !.kind = "None"], ledger, m1, FALSE)}
        ELSE {Finish("Chat", [BaseReply EXCEPT !.kind = "conversa", !.text = chat_response],
                     ledger, m1, FALSE)}

(***************************************************************************)
(* The running bot: one FinanceBot, its memory, the ledger and the form    *)
(* of the dashboard that writes to the same ledger.                        *)
(***************************************************************************)
\* the rows the ledger may hold when the bot is constructed
LedgerRowSet ==
    [data : {30}, valor : {5000}, categoria : {"Lazer"},
     descricao : {str_lunch}, forma_pagamento : {"PIX"}]

InitialLedgers == UNION {[1..n -> LedgerRowSet] : n \in 0..MaxInitialRows}

\* what the store does during one call
StoreOutcomes(today) ==
    [readOk : {TRUE}, sample : {<<>>}, insertOk : BOOLEAN]
    \cup [readOk : {FALSE}, sample : collect_sample_data(today, {0}), insertOk : BOOLEAN]

NoCall ==
    [at |-> 0, message |-> <<>>, route |-> "", reply |-> BaseReply,
     inserted |-> FALSE, readOk |-> TRUE, attempted |-> FALSE, insertOk |-> TRUE,
     intent_response |-> NoneContent, steps |-> <<>>]

BotIdle ==
    /\ b_clock = BotStart
    /\ b_sys_offset = 0
    /\ b_ledger = <<>>
    /\ b_memory = NewMemory
    /\ b_chat_history = <<>>
    /\ b_calls = 0
    /\ b_last_call = NoCall

\* FinanceBot.__init__(), lines 20-45, with FinanceBotMemory.__init__(),
\* memory_manager.py lines 11-16, which loads the profile
Constructed ==
    /\ b_clock = BotStart
    /\ b_sys_offset \in SystemOffsets
    /\ b_ledger \in InitialLedgers
    /\ \E store \in StoreOutcomes(LocalDay(b_clock, b_sys_offset)) :
          b_memory = _load_user_profile(NewMemory, StoreRead(b_ledger, store), b_clock)
    /\ b_chat_history = <<>>
    /\ b_calls = 0
    /\ b_last_call = NoCall

\* The model calls chat() makes depend on the utterance and on the first
\* answer: an analysis utterance asks the model nothing (line 491), and the
\* second call is made only on the conversation branch (line 559).  A call
\* that is not made has no answer to choose.
AnalysisUtterances == {m \in Utterances : is_analysis_query(StrLower(m))}

ConversationIntents ==
    {r \in IntentResponses \ {NoneContent} :
        /\ ~Contains(r, str_ACAO_CADASTRAR)
        /\ ~Contains(r, str_ACAO_ANALISAR_GASTOS)
        /\ ~Contains(r, str_ACAO_CONSELHOS)}

IntentsAsked(message) ==
    IF message \in AnalysisUtterances THEN {NoneContent} ELSE IntentResponses

ChatAsked(message, intent_response) ==
    IF message \notin AnalysisUtterances /\ intent_response \in ConversationIntents
    THEN ChatResponses ELSE {NoneContent}

\* one call of chat()
Chat ==
    /\ b_calls < MaxCalls
    /\ \E message \in Utterances,
          store \in StoreOutcomes(LocalDay(b_clock, b_sys_offset)) :
       \E intent_response \in IntentsAsked(message) :
       \E chat_response \in ChatAsked(message, intent_response) :
          \E out \in chat(message, b_ledger, b_memory, b_chat_history, store,
                          intent_response, chat_response, b_clock,
                          LocalDay(b_clock, b_sys_offset)) :
             /\ b_ledger' = out.ledger
             /\ b_memory' = out.memory
             /\ b_chat_history' = out.chat_history
             /\ b_last_call' = [at |-> b_clock, message |-> message, route |-> out.route,
                                reply |-> out.reply, inserted |-> out.inserted,
                                readOk |-> store.readOk, attempted |-> out.attempted,
                                insertOk |-> store.insertOk,
                                intent_response |-> intent_response,
                                steps |-> out.steps]
    /\ b_calls' = b_calls + 1
    /\ UNCHANGED <<b_clock, b_sys_offset, exceptBot>>

\* an hour passes
Tick ==
    /\ b_clock < BotEnd
    /\ b_clock' = b_clock + 1
    /\ UNCHANGED <<b_sys_offset, b_ledger, b_memory, b_chat_history, b_calls, b_last_call>>
    /\ UNCHANGED exceptBot

\* the form of the dashboard, dashboard.py lines 405-427: a row with a
\* category, a description and a positive amount goes to the same table
DashboardInsert ==
    /\ Len(b_ledger) < MaxLedger
    /\ \E row \in LedgerRowSet, insertOk \in BOOLEAN :
          b_ledger' = insert_new_expense(b_ledger, row, insertOk)
    /\ UNCHANGED <<b_clock, b_sys_offset, b_memory, b_chat_history, b_calls, b_last_call>>
    /\ UNCHANGED exceptBot

Next == Chat \/ Tick \/ DashboardInsert

\* The profile the memory would hold if it were rebuilt from the table.
ProfileOf(table) == _analyze_spending_patterns(NewMemory, OrderByDataDesc(table)).user_profile

\* The row the last call wrote, read back from its reply.
RegisteredRow ==
    [data |-> b_last_call.reply.data, valor |-> b_last_call.reply.valor,
     categoria |-> b_last_call.reply.categoria, descricao |-> str_gasto_via,
     forma_pagamento |-> "FinanceBot"]

\* C1: a chat() call that registers an expense, with the table readable,
\* leaves the memory's profile rebuilt from the table that holds the new
\* record.
C1_ProfileHoldsNewRecord ==
    [][(b_calls' = b_calls + 1 /\ b_last_call'.inserted /\ b_last_call'.readOk)
          => b_memory'.user_profile = ProfileOf(b_ledger')]_vars

\* C2: the utterance "Gastei 30 reais com almoço hoje" is routed to
\* Register, with the amount 30.00, and to no other branch.
C2_RegisterUtteranceRegisters ==
    b_last_call.message = msg_gastei_almoco =>
        /\ b_last_call.route = "Register"
        /\ b_last_call.reply.valor = 3000

\* C3: at the instant an expense is registered, the selection of the
\* current month over the table contains the new row.
C3_RegisteredRowInCurrentMonth ==
    (b_last_call.inserted /\ b_last_call.at = b_clock) =>
        RegisteredRow \in
            Range(_query_expenses_by_period(CurrentMonthDefault(_get_current_time(b_clock)),
                                            OrderByDataDesc(b_ledger), b_clock, FALSE))

(***************************************************************************)
(* The registration branch alone: one classifier answer of the form        *)
(* ACAO:CADASTRAR|VALOR:XX|CATEGORIA:YY handed to the branch of lines      *)
(* 514-533 of chat().                                                      *)
(***************************************************************************)
\* what the classifier may write after VALOR:, with the amount the text
\* names in centavos (0 for a text that names no number)
AmountTexts ==
    {[text |-> <<"3","0">>, amount |-> 3000],
     [text |-> <<"1","2",",","5","0">>, amount |-> 1250],
     [text |-> <<"0">>, amount |-> 0],
     [text |-> <<"-","5">>, amount |-> -500],
     [text |-> <<"a","b","c">>, amount |-> 0]}

\* what the classifier may write after CATEGORIA:, with the category the
\* hint is a synonym of in the table of lines 192-197 ("" for none) and
\* whether it is spelled as a name of the list of line 200
CategoryHints ==
    {[text |-> <<"c","o","m","i","d","a">>, synonym_of |-> "Alimentação", listed |-> FALSE],
     [text |-> <<"U","b","e","r">>, synonym_of |-> "Transporte", listed |-> FALSE],
     [text |-> <<"L","a","z","e","r">>, synonym_of |-> "", listed |-> TRUE],
     [text |-> <<"R","o","u","p","a","s">>, synonym_of |-> "", listed |-> TRUE],
     [text |-> <<"l","a","z","e","r">>, synonym_of |-> "", listed |-> FALSE],
     [text |-> <<"P","e","t","s">>, synonym_of |-> "", listed |-> FALSE],
     [text |-> <<>>, synonym_of |-> "", listed |-> FALSE]}

\* the answer of the format of line 507, without the description
intent_cadastrar(valor_text, hint_text) ==
    str_ACAO_CADASTRAR \o <<"|">> \o str_VALOR \o valor_text
        \o <<"|">> \o str_CATEGORIA \o hint_text

RegIdle ==
    /\ r_in = <<>>
    /\ r_out = NotCalled

RegInputs ==
    /\ r_in \in [valor : AmountTexts, hint : CategoryHints, ledger : InitialLedgers,
                 insertOk : BOOLEAN]
    /\ r_out = NotCalled

\* lines 514-533 run on the answer
RegisterCall ==
    /\ r_out = NotCalled
    /\ r_out' = Returned(cadastrar(intent_cadastrar(r_in.valor.text, r_in.hint.text),
                                   r_in.ledger, NewMemory,
                                   [readOk |-> TRUE, sample |-> <<>>,
                                    insertOk |-> r_in.insertOk],
                                   BotStart, LocalDay(BotStart, 0)))
    /\ UNCHANGED <<r_in, exceptReg>>

RegDone == r_out # NotCalled
r_ret == r_out[1]

\* C16: an answer whose amount is zero, negative or no number gets the
\* validation message, and the ledger is left as it was.
C16_NonPositiveRejected ==
    (RegDone /\ r_in.valor.amount <= 0) =>
        /\ r_ret.reply.kind = "valor_invalido"
        /\ ~r_ret.inserted
        /\ r_ret.ledger = r_in.ledger

\* the row the branch appended
AppendedRow == r_ret.ledger[Len(r_ret.ledger)]

\* C19: a row appended by the registration branch has a category of the
\* canonical set: the canonical category of the hint when the hint is a
\* synonym, Outros when the hint is neither a synonym nor a canonical name.
C19_CanonicalCategory ==
    (RegDone /\ r_ret.inserted) =>
        /\ Len(r_ret.ledger) = Len(r_in.ledger) + 1
        /\ AppendedRow.categoria \in Categories
        /\ r_in.hint.synonym_of # "" => AppendedRow.categoria = r_in.hint.synonym_of
        /\ (r_in.hint.synonym_of = "" /\ ~r_in.hint.listed) => AppendedRow.categoria = "Outros"

\* a synonym spelled with a capital has been stored under its category
C19_Witness ==
    /\ RegDone
    /\ r_ret.inserted
    /\ r_in.hint.text = <<"U","b","e","r">>
    /\ AppendedRow.categoria = "Transporte"

(***************************************************************************)
(* DataCollector._connect_with_retry(), data_collector.py lines 17-31.     *)
(***************************************************************************)
\* the default of the parameter, line 17, and the pause of line 29
max_retries == 5
retry_pause == 2

\* a variant that pauses after every failed attempt
another_attempt_follows_always(attempt) == TRUE

\* line 28: attempt < max_retries - 1
another_attempt_follows(attempt) == attempt < max_retries - 1

\* the connection is up and nothing is being tried
ConnIdle ==
    /\ c_plan = <<>>
    /\ c_attempt = 0
    /\ c_pc = "returned"
    /\ c_log = <<>>

\* DataCollector.__init__() calls _connect_with_retry(); the database
\* answers or not at each attempt
ConnStart ==
    /\ c_plan \in [1..max_retries -> BOOLEAN]
    /\ c_attempt = 0
    /\ c_pc = "try"
    /\ c_log = <<>>

\* lines 19-27 and 30-31: one pass of the loop body up to the pause
ConnectAttempt ==
    /\ c_pc = "try"
    /\ c_attempt < max_retries
    /\ c_log' = Append(c_log, "attempt")
    /\ c_pc' = IF c_plan[c_attempt + 1] THEN "returned"
               ELSE IF another_attempt_follows(c_attempt) THEN "sleep"
               ELSE "raised"
    /\ UNCHANGED <<c_plan, c_attempt, exceptConn>>

\* line 29, and the loop moving to the next attempt
ConnectSleep ==
    /\ c_pc = "sleep"
    /\ c_log' = Append(c_log, "sleep")
    /\ c_attempt' = c_attempt + 1
    /\ c_pc' = "try"
    /\ UNCHANGED <<c_plan, exceptConn>>

ConnNext == ConnectAttempt \/ ConnectSleep

Attempts == Cardinality({i \in 1..Len(c_log) : c_log[i] = "attempt"})
Pauses == Cardinality({i \in 1..Len(c_log) : c_log[i] = "sleep"})
SecondsPaused == retry_pause * Pauses
ConnOver == c_plan # <<>> /\ c_pc \in {"returned", "raised"}
AllFail == \A i \in 1..max_retries : ~c_plan[i]

\* C22: the connection makes at most 5 attempts, pauses 2 seconds between
\* two consecutive attempts and nowhere else, stops at the first attempt
\* that succeeds, and raises exactly when all 5 attempts fail.
C22_BoundedRetry ==
    c_plan # <<>> =>
        /\ Attempts <= max_retries
        /\ \A i \in 1..Len(c_log) :
              c_log[i] = "sleep" =>
                  /\ i > 1 /\ c_log[i - 1] = "attempt"
                  /\ (i < Len(c_log) => c_log[i + 1] = "attempt")
                  /\ (i = Len(c_log) => c_pc = "try" /\ Attempts < max_retries)
        /\ \A i \in 1..(Len(c_log) - 1) :
              c_log[i] = "attempt" => c_log[i + 1] = "sleep"
        /\ c_pc = "returned" =>
              /\ c_plan[Attempts]
              /\ \A i \in 1..(Attempts - 1) : ~c_plan[i]
        /\ (c_pc = "raised") <=> (ConnOver /\ AllFail)
        /\ c_pc = "raised" => Attempts = max_retries
        /\ ConnOver => SecondsPaused = retry_pause * (Attempts - 1)

\* all five attempts have failed and the connection has raised after
\* four pauses
C22_Witness ==
    /\ c_pc = "raised"
    /\ Attempts = 5
    /\ SecondsPaused = 8

(***************************************************************************)
(* A long conversation: chat() called again and again on one bot, with a   *)
(* working store, so that the history passes its cap.                      *)
(***************************************************************************)
\* what the classifier answers in the long conversation: small talk, a
\* registration of 0.00, or a completion without content
LongIntents == {llm_conversar, llm_cadastrar_zero, NoneContent}

\* FinanceBot.__init__() over an empty table that reads well
LongConstructed ==
    /\ b_clock = BotStart
    /\ b_sys_offset = 0
    /\ b_ledger = <<>>
    /\ b_memory = _load_user_profile(NewMemory, <<>>, b_clock)
    /\ b_chat_history = <<>>
    /\ b_calls = 0
    /\ b_last_call = NoCall

\* one call of chat() in the long conversation
LongChat ==
    /\ b_calls < MaxLongCalls
    /\ \E intent_response \in LongIntents :
       \E out \in chat(msg_paguei_almoco, b_ledger, b_memory, b_chat_history,
                       [readOk |-> TRUE, sample |-> <<>>, insertOk |-> TRUE],
                       intent_response, llm_ola, b_clock,
                       LocalDay(b_clock, b_sys_offset)) :
          /\ b_ledger' = out.ledger
          /\ b_memory' = out.memory
          /\ b_chat_history' = out.chat_history
          /\ b_last_call' = [at |-> b_clock, message |-> msg_paguei_almoco,
                             route |-> out.route, reply |-> out.reply,
                             inserted |-> out.inserted, readOk |-> TRUE,
                             attempted |-> out.attempted, insertOk |-> TRUE,
                             intent_response |-> intent_response,
                             steps |-> out.steps]
    /\ b_calls' = b_calls + 1
    /\ UNCHANGED <<b_clock, b_sys_offset, exceptBot>>

\* C15: after every call of chat() the history holds at most 10 entries,
\* and they are the last entries of the history before the call followed
\* by the user's message and the reply of the call, in that order.
C15_HistoryCapped ==
    /\ [](Len(b_chat_history) <= HistoryCap)
    /\ [][b_calls' = b_calls + 1 =>
             b_chat_history' =
                 LastTurns(b_chat_history \o <<UserTurn(b_last_call'.message),
                                              AssistantTurn(b_last_call'.reply)>>)]_vars

\* the reply "❌ Não consegui salvar. Tente novamente."
RetryableFailure == [BaseReply EXCEPT !.kind = "nao_salvou"]

\* C17: a chat() call whose insert into the store fails returns the
\* retryable failure message, leaves the ledger as it was, and adds to the
\* history the user's turn followed by one assistant turn with that message.
C17_InsertFailureHandled ==
    [][(b_calls' = b_calls + 1 /\ b_last_call'.attempted /\ ~b_last_call'.insertOk) =>
          /\ b_last_call'.reply = RetryableFailure
          /\ b_ledger' = b_ledger
          /\ b_chat_history' =
                 LastTurns(b_chat_history \o <<UserTurn(b_last_call'.message),
                                              AssistantTurn(RetryableFailure)>>)]_vars

\* a call has tried to insert and the store has failed
C17_Witness ==
    /\ b_calls > 0
    /\ b_last_call.attempted
    /\ ~b_last_call.insertOk
    /\ b_last_call.route = "Register"
    /\ Len(b_chat_history) = 2

\* the classifier was asked and its answer is not of the expected
\* structure: it names none of the actions, or it names CADASTRAR and has
\* no VALOR field
NoAction(intent_response) ==
    /\ ~Contains(intent_response, str_ACAO_CADASTRAR)
    /\ ~Contains(intent_response, str_ACAO_ANALISAR_GASTOS)
    /\ ~Contains(intent_response, str_ACAO_CONSELHOS)

MissingValor(intent_response) ==
    /\ Contains(intent_response, str_ACAO_CADASTRAR)
    /\ \A i \in 1..Len(Split(intent_response, "|")) :
          ~StartsWith(Split(intent_response, "|")[i], str_VALOR)

ClassifierAsked ==
    /\ b_calls > 0
    /\ b_last_call.message \notin AnalysisUtterances
    /\ b_last_call.intent_response # NoneContent

\* C18: when the classifier's answer names no action, or names CADASTRAR
\* without its VALOR field, the utterance is handled as Chat and the reply
\* is not the text of an extraction error.
C18_UnparsableIsChat ==
    (/\ ClassifierAsked
     /\ \/ NoAction(b_last_call.intent_response)
        \/ MissingValor(b_last_call.intent_response)) =>
        /\ b_last_call.route = "Chat"
        /\ b_last_call.reply.kind # "erro_extrair"

\* the records an analysis of the message selects from the table, read
\* at the instant of the call
Queried(message, table, clock) ==
    _query_expenses_by_period(_parse_date_query(message, clock), OrderByDataDesc(table),
                              clock, FALSE)

\* C20: an analysis over a non-empty selection states the total and the
\* count of the selected records and, for the category it names as the
\* dominant one, that category's sum and its share of the total.
C20_AnalyzeStatesDominant ==
    [][(/\ b_calls' = b_calls + 1
        /\ b_last_call'.route = "Analyze"
        /\ b_last_call'.readOk
        /\ Queried(b_last_call'.message, b_ledger, b_clock) # <<>>) =>
          LET records == Queried(b_last_call'.message, b_ledger, b_clock)
              reply == b_last_call'.reply
          IN  /\ reply.total = SumSeq([i \in 1..Len(records) |-> records[i].valor])
              /\ reply.transacoes = Len(records)
              /\ reply.categoria_principal \in Categories
              /\ reply.valor_principal = SumOf(records, reply.categoria_principal)
              /\ reply.percentual_principal =
                     Fraction(reply.valor_principal * 100, reply.total)]_vars

\* what chat() hands back is text: a reply of kind "None" is the value
\* None of line 559, the content of a completion that has none
IsText(reply) == reply.kind # "None"

\* C21: every call of chat() ends with a reply that is a string, whatever
\* the store and the two completions do.
C21_ChatReturnsText ==
    b_calls > 0 => (b_last_call.route # "" /\ IsText(b_last_call.reply))

\* C24: a chat() call leaves every row of the table as it was and where
\* it was; the table has one row more after a call that registered an
\* expense and the same rows after any other call.
C24_LedgerAppendOnly ==
    [][b_calls' = b_calls + 1 =>
          /\ Len(b_ledger') = Len(b_ledger) + (IF b_last_call'.inserted THEN 1 ELSE 0)
          /\ SubSeq(b_ledger', 1, Len(b_ledger)) = b_ledger
          /\ b_last_call'.route \in {"Analyze", "Advice", "Chat", "Error"}
                 => b_ledger' = b_ledger]_vars

\* an expense has been registered under a row that was there before
C24_Witness ==
    /\ b_last_call.inserted
    /\ Len(b_ledger) >= 2
    /\ b_ledger[1] \in LedgerRowSet
    /\ b_ledger[Len(b_ledger)].forma_pagamento = "FinanceBot"

\* the profile the memory holds after the last call
Profile == b_memory.user_profile

C25_WitnessEmpty ==
    /\ b_last_call.route = "Advice"
    /\ Profile = EmptyDict
    /\ b_last_call.reply.temas = generic_rules

\* C26: when the classifier answers
\* ACAO:CADASTRAR|VALOR:30|CATEGORIA:comida|DESCRICAO:almoço and the store
\* accepts the insert, the table gains exactly one row, of amount 30.00,
\* category Alimentação and description "almoço", and the reply is the
\* confirmation.
C26_WellFormedPayloadRegisters ==
    [][(/\ b_calls' = b_calls + 1
        /\ b_last_call'.message \notin AnalysisUtterances
        /\ b_last_call'.intent_response = llm_cadastrar_completo
        /\ b_last_call'.insertOk) =>
          /\ b_last_call'.reply.kind = "registrado"
          /\ Len(b_ledger') = Len(b_ledger) + 1
          /\ SubSeq(b_ledger', 1, Len(b_ledger)) = b_ledger
          /\ b_ledger'[Len(b_ledger')].valor = 3000
          /\ b_ledger'[Len(b_ledger')].categoria = "Alimentação"
          /\ b_ledger'[Len(b_ledger')].descricao = <<"a","l","m","o","ç","o">>]_vars

\* the turn at position i of the history is the user's when i is odd and
\* the assistant's when i is even
Alternates(history) ==
    \A i \in 1..Len(history) :
        history[i].role = (IF i % 2 = 1 THEN "user" ELSE "assistant")

\* history ends with the two turns of the last call, the user's first
EndsWithCall(history, message, reply) ==
    /\ Len(history) >= 2
    /\ history[Len(history) - 1] = UserTurn(message)
    /\ history[Len(history)] = AssistantTurn(reply)

\* C28: after any sequence of chat() calls the history has even length,
\* starts with a user turn and alternates user and assistant turns; each
\* call adds the user's turn and then one assistant turn, after what was
\* kept of the turns before.
C28_TurnsAlternate ==
    /\ [](Len(b_chat_history) % 2 = 0 /\ Alternates(b_chat_history))
    /\ [][b_calls' = b_calls + 1 =>
             /\ EndsWithCall(b_chat_history', b_last_call'.message, b_last_call'.reply)
             /\ \E k \in 0..Len(b_chat_history) :
                   SubSeq(b_chat_history', 1, Len(b_chat_history') - 2)
                       = SubSeq(b_chat_history, k + 1, Len(b_chat_history))]_vars

\* the history has been cut to the cap by a call that follows a failed one
C28_Witness ==
    /\ b_calls >= 6
    /\ Len(b_chat_history) = HistoryCap
    /\ b_chat_history[HistoryCap - 2].content.kind = "erro_processar"
    /\ b_last_call.route = "Chat"

Handlers == {"Analyze", "Register", "Advice", "Chat"}
StepCount(steps, step) == Cardinality({i \in 1..Len(steps) : steps[i] = step})
HandlersRun(steps) == {i \in 1..Len(steps) : steps[i] \in Handlers}

\* C29: a call of chat() appends to the history, refreshes the memory,
\* classifies and dispatches, in this order, to exactly one handler; an
\* utterance with an analysis keyword goes to Analyze with no call of the
\* model, any other utterance makes one classification call and at most
\* one generation call, made by the Chat handler.
C29_OneHandlerInOrder ==
    b_calls > 0 =>
        LET steps == b_last_call.steps
        IN  /\ Len(steps) >= 3
            /\ steps[1] = "append"
            /\ steps[2] = "refresh"
            /\ Cardinality(HandlersRun(steps)) = 1
            /\ IF b_last_call.message \in AnalysisUtterances
               THEN steps = <<"append", "refresh", "Analyze">>
               ELSE /\ steps[3] = "classify"
                    /\ StepCount(steps, "classify") = 1
                    /\ StepCount(steps, "generate") <= 1
                    /\ HandlersRun(steps) = {4}
                    /\ StepCount(steps, "generate") = 1 =>
                          (steps[4] = "Chat" /\ steps[5] = "generate")

(***************************************************************************)
(* The chat interface, chat_interface.py: one session with its bot, the    *)
(* form with the buttons Enviar and Limpar.                                *)
(***************************************************************************)
\* the welcome message of lines 52-72
welcome_message == AssistantTurn([BaseReply EXCEPT !.kind = "boas-vindas"])

UiIdle ==
    /\ u_chat_messages = <<>>
    /\ u_chat_history = <<>>
    /\ u_processing_message = FALSE
    /\ u_sends = 0
    /\ u_event = ""

\* lines 13-76: the first run of the script in a session
UiStarted ==
    /\ u_chat_messages = <<welcome_message>>
    /\ u_chat_history = <<>>
    /\ u_processing_message = FALSE
    /\ u_sends = 0
    /\ u_event = "start"

\* lines 125-158: Enviar with a message; the bot is over an empty table
\* that reads well, so chat() changes of the bot only its history
SendPressed ==
    /\ ~u_processing_message
    /\ u_sends < MaxSends
    /\ \E intent_response \in LongIntents, chat_response \in ChatResponses :
       \E out \in chat(msg_paguei_almoco, <<>>, NewMemory, u_chat_history,
                       [readOk |-> TRUE, sample |-> <<>>, insertOk |-> TRUE],
                       intent_response, chat_response, BotStart, LocalDay(BotStart, 0)) :
          /\ u_chat_history' = out.chat_history
          /\ u_chat_messages' = u_chat_messages
                                    \o <<UserTurn(msg_paguei_almoco), AssistantTurn(out.reply)>>
    /\ u_processing_message' = FALSE
    /\ u_sends' = u_sends + 1
    /\ u_event' = "send"
    /\ UNCHANGED exceptUi

\* lines 160-166: Limpar.  FinanceBot defines no clear_history: line 164
\* raises AttributeError after line 162 has emptied the transcript, and
\* lines 165-166 do not run
ClearPressed ==
    /\ u_chat_messages' = <<>>
    /\ u_event' = "clear"
    /\ UNCHANGED <<u_chat_history, u_processing_message, u_sends, exceptUi>>

UiNext == SendPressed \/ ClearPressed

\* C30: after Limpar the transcript is empty, the bot's history is empty
\* and processing_message is False; a completed Enviar leaves
\* processing_message False and adds to the transcript the user's
\* message followed by one message of the assistant.
C30_ClearAndSendLeaveCleanState ==
    /\ [](u_event = "clear" =>
             /\ u_chat_messages = <<>>
             /\ u_chat_history = <<>>
             /\ ~u_processing_message)
    /\ [][u_event' = "send" =>
             /\ ~u_processing_message'
             /\ Len(u_chat_messages') = Len(u_chat_messages) + 2
             /\ SubSeq(u_chat_messages', 1, Len(u_chat_messages)) = u_chat_messages
             /\ u_chat_messages'[Len(u_chat_messages') - 1] = UserTurn(msg_paguei_almoco)
             /\ u_chat_messages'[Len(u_chat_messages')].role = "assistant"]_vars

(***************************************************************************)
(* Specifications.                                                         *)
(***************************************************************************)
\* The running bot; the variables of the other specifications rest.
Init == Constructed /\ ParseIdle /\ QueryIdle /\ StatsIdle /\ MemIdle /\ RegIdle /\ ConnIdle /\ SharedIdle /\ UiIdle
Spec == Init /\ [][Next]_vars

\* One call of one function on inputs drawn from bounded sets.
InitParse == ParseInputs /\ BotIdle /\ QueryIdle /\ StatsIdle /\ MemIdle /\ RegIdle /\ ConnIdle /\ SharedIdle /\ UiIdle
InitQuery == QueryInputs /\ BotIdle /\ ParseIdle /\ StatsIdle /\ MemIdle /\ RegIdle /\ ConnIdle /\ SharedIdle /\ UiIdle
InitStats == StatsInputs /\ BotIdle /\ ParseIdle /\ QueryIdle /\ MemIdle /\ RegIdle /\ ConnIdle /\ SharedIdle /\ UiIdle

SpecParse == InitParse /\ [][ParseCall]_vars

SpecQuery == InitQuery /\ [][QueryCall]_vars

SpecStats == InitStats /\ [][StatsCall]_vars

\* The memory alone.
InitMemory == MemConstructed /\ BotIdle /\ ParseIdle /\ QueryIdle /\ StatsIdle /\ RegIdle /\ ConnIdle /\ SharedIdle /\ UiIdle
SpecMemory == InitMemory /\ [][MemNext]_vars

\* The long conversation.
InitHistory == LongConstructed /\ ParseIdle /\ QueryIdle /\ StatsIdle /\ MemIdle /\ RegIdle /\ ConnIdle /\ SharedIdle /\ UiIdle
SpecHistory == InitHistory /\ [][LongChat]_vars

\* The registration branch alone.
InitRegister == RegInputs /\ BotIdle /\ ParseIdle /\ QueryIdle /\ StatsIdle /\ MemIdle /\ ConnIdle /\ SharedIdle /\ UiIdle
SpecRegister == InitRegister /\ [][RegisterCall]_vars

\* The connection to the store.
InitConnect == ConnStart /\ BotIdle /\ ParseIdle /\ QueryIdle /\ StatsIdle /\ MemIdle /\ RegIdle /\ SharedIdle /\ UiIdle
SpecConnect == InitConnect /\ [][ConnNext]_vars

\* One memory, several threads.
InitShared == SharedConstructed /\ BotIdle /\ ParseIdle /\ QueryIdle /\ StatsIdle /\ MemIdle /\ RegIdle /\ ConnIdle /\ UiIdle
SpecShared == InitShared /\ [][SharedNext]_vars

\* The chat interface.
InitInterface == UiStarted /\ BotIdle /\ ParseIdle /\ QueryIdle /\ StatsIdle /\ MemIdle /\ RegIdle /\ ConnIdle /\ SharedIdle
SpecInterface == InitInterface /\ [][UiNext]_vars

=============================================================================
